---------------------------- MODULE Spec2Model ----------------------------
(***************************************************************************)
(* The document-management server: the upload handler, the file           *)
(* processing pipeline (FileProcessor.processFile) with its OCR and       *)
(* language-model collaborators, and the folder CRUD handlers, over the   *)
(* relational store (DatabaseStorage).                                    *)
(*                                                                         *)
(* Text values (names, paths, OCR text, summaries, tags) are sequences of *)
(* one-character strings, so that trimming and concatenation are computed *)
(* as the code computes them.  Every await of a handler is a yield point: *)
(* one action is one continuation, from the arrival of the awaited result *)
(* to the next await (or the end) of the handler.                         *)
(***************************************************************************)
EXTENDS Integers, Sequences, FiniteSets, TLC

VARIABLES
    reqs,          \* the HTTP requests received so far, each with its handler's position
    files,         \* table files: id -> row
    nextFileId,    \* serial of files.id
    procs,         \* FileProcessor.processFile invocations: file id -> locals and position
    folders,       \* table folders: id -> row
    nextFolderId,  \* serial of folders.id
    oracle,        \* the collaborators of a run: free, or fixed responses
    commands,      \* table ai_commands with the processCommand invocation of each row
    disk,          \* the paths of the uploads directory that hold bytes
    ocrService     \* the OCRService instance, its workers and its extractText calls

vars == <<reqs, files, nextFileId, procs, folders, nextFolderId, oracle, commands, disk,
          ocrService>>

----------------------------------------------------------------------------
(* Bounds of the model *)

\* HTTP requests received in one behaviour of SpecFolders
MaxReqs == 3
\* file parts uploaded in one behaviour of Spec
MaxFiles == 1
\* file parts uploaded in one behaviour of SpecUpload
MaxParts == 2
\* upload requests received in one behaviour of SpecUpload
MaxUploads == 1
\* runs of processFile on one file record in SpecRerun
MaxRuns == 2
\* AI commands submitted in one behaviour of SpecCommands
MaxCommands == 1
\* calls of ocrService.extractText in one behaviour of SpecOcr
MaxOcrCalls == 2

----------------------------------------------------------------------------
(* Values *)

\* SQL NULL / JS null of an integer column or field
Null == -1

\* an integer field that a request body does not carry
Undefined == -2

\* SQL NULL of a text column
NullText == <<"<null>">>

\* SQL NULL of a text[] column
NullTags == <<NullText>>

\* marks a collaborator that has not been called
NotCalled == <<"<not called>">>

\* a request field that the body does not carry
JsUndefined == "undefined"

\* the boolean true, as opposed to the string 'true'
JsTrue == "true"

StrTrue == "'true'"

StrFalse == "'false'"

Users == {"u1", "u2"}

\* file.originalname: multer passes the client's file name through
OriginalNames == {<<>>, <<"n">>}

\* file.mimetype: a type on the allow-list of isOCRSupported and one that
\* is not
MimeTypes == {"application/pdf", "text/plain"}

Whitespace == {" ", "\n", "\t"}

----------------------------------------------------------------------------
(* Collaborators: the responses they can give *)

\* worker.recognize: throws, or returns data.text
RecognizeResponses ==
    { [ok |-> FALSE, text |-> <<>>],
      [ok |-> TRUE,  text |-> <<" ">>],
      [ok |-> TRUE,  text |-> <<" ", "x", " ">>] }

\* chat.completions.create for a summary: throws, or message.content
\* (<<>> stands for a null or empty content)
SummaryResponses ==
    { [ok |-> FALSE, content |-> <<>>],
      [ok |-> TRUE,  content |-> <<>>],
      [ok |-> TRUE,  content |-> <<"s">>] }

\* chat.completions.create for tags: throws, or a content that does not
\* parse, parses without a tags member, or parses with one
TagResponses ==
    { [ok |-> FALSE, json |-> "none",   tags |-> <<>>],
      [ok |-> TRUE,  json |-> "bad",    tags |-> <<>>],
      [ok |-> TRUE,  json |-> "notags", tags |-> <<>>],
      [ok |-> TRUE,  json |-> "tags",   tags |-> << <<"b">>, <<"a">>, <<"b">> >>] }

----------------------------------------------------------------------------
(* Pure functions *)

RECURSIVE TrimStart(_)
TrimStart(s) ==
    IF s # <<>> /\ Head(s) \in Whitespace THEN TrimStart(Tail(s)) ELSE s

RECURSIVE TrimEnd(_)
TrimEnd(s) ==
    IF s # <<>> /\ s[Len(s)] \in Whitespace
    THEN TrimEnd(SubSeq(s, 1, Len(s) - 1))
    ELSE s

\* String.prototype.trim
Trim(s) == TrimEnd(TrimStart(s))

\* OCRService.extractText: the recognized text trimmed, or a throw
ExtractText(resp) ==
    IF resp.ok
    THEN [ok |-> TRUE, text |-> Trim(resp.text)]
    ELSE [ok |-> FALSE, text |-> <<>>]

UnableMsg ==
    << "U","n","a","b","l","e"," ","t","o"," ","g","e","n","e","r","a","t","e",
       " ","s","u","m","m","a","r","y" >>

FailedMsg ==
    << "S","u","m","m","a","r","y"," ","g","e","n","e","r","a","t","i","o","n",
       " ","f","a","i","l","e","d" >>

\* OpenAIService.summarizeDocument: never throws
SummarizeDocument(resp) ==
    IF resp.ok
    THEN (IF resp.content # <<>> THEN resp.content ELSE UnableMsg)
    ELSE FailedMsg

\* OpenAIService.generateTags: never throws
GenerateTags(resp) ==
    IF resp.ok /\ resp.json = "tags" THEN resp.tags ELSE <<>>

\* isOCRSupported that accepts every declared type
IsOCRSupportedAny(mimeType) == mimeType # ""

\* FileProcessor.isOCRSupported
IsOCRSupported(mimeType) ==
    mimeType \in { "image/jpeg", "image/png", "image/gif", "image/bmp",
                   "image/tiff", "application/pdf" }

\* const { x = true } = req.body
DestructureDefault(v) == IF v = JsUndefined THEN JsTrue ELSE v

\* x === 'true'
IsStringTrue(v) == v = StrTrue

\* the options object the upload handler passes to processFile
ProcessingOptions(opts) ==
    [ processOcr      |-> IsStringTrue(opts.processOcr),
      generateSummary |-> IsStringTrue(opts.generateSummary),
      autoTag         |-> IsStringTrue(opts.autoTag) ]

----------------------------------------------------------------------------
(* Persistence *)

\* the insert without processingStatus: the column takes its default
InsertFileValuesDefaultStatus(userId, folderId, part) ==
    [ userId           |-> userId,
      folderId         |-> folderId,
      originalName     |-> part.originalname,
      mimeType         |-> part.mimetype,
      filePath         |-> part.path,
      ocrText          |-> NullText,
      aiSummary        |-> NullText,
      tags             |-> NullTags,
      processingStatus |-> "pending" ]

\* the values the upload handler inserts; the columns it leaves out are NULL
InsertFileValues(userId, folderId, part) ==
    [ userId           |-> userId,
      folderId         |-> folderId,
      originalName     |-> part.originalname,
      mimeType         |-> part.mimetype,
      filePath         |-> part.path,
      ocrText          |-> NullText,
      aiSummary        |-> NullText,
      tags             |-> NullTags,
      processingStatus |-> "processing" ]

\* updateFile that appends the new tags to the stored ones
UpdateFileAppendTags(table, id, updates) ==
    IF id \in DOMAIN table
    THEN [table EXCEPT ![id] =
            IF "tags" \in DOMAIN updates /\ @.tags # NullTags
            THEN [updates EXCEPT !.tags = table[id].tags \o @] @@ @
            ELSE updates @@ @]
    ELSE table

\* updateFile without its where clause: every row is written
UpdateFileAllRows(table, id, updates) ==
    [f \in DOMAIN table |-> updates @@ table[f]]

\* updateFile that inserts the columns when there is no row with that id
UpdateFileUpsert(table, id, updates) ==
    IF id \in DOMAIN table
    THEN [table EXCEPT ![id] = updates @@ @]
    ELSE (id :> (updates @@ [ userId |-> "u1", folderId |-> Null,
                              originalName |-> <<>>, mimeType |-> "text/plain",
                              filePath |-> <<0, 0>>, ocrText |-> NullText,
                              aiSummary |-> NullText, tags |-> NullTags,
                              processingStatus |-> "pending" ])) @@ table

\* DatabaseStorage.updateFile: sets the given columns of the row with that
\* id; no row, no change (and no error)
UpdateFile(table, id, updates) ==
    IF id \in DOMAIN table
    THEN [table EXCEPT ![id] = updates @@ @]
    ELSE table

\* the tags without their duplicates
RECURSIVE Dedup(_)
Dedup(s) ==
    IF s = <<>> THEN <<>>
    ELSE LET rest == Dedup(SubSeq(s, 1, Len(s) - 1))
         IN  IF \E i \in DOMAIN rest : rest[i] = s[Len(s)]
             THEN rest
             ELSE Append(rest, s[Len(s)])

\* the update of the try block without its status
CompletedUpdatesNoStatus(p) ==
    [ ocrText   |-> p.ocrText,
      aiSummary |-> p.summary,
      tags      |-> p.tags ]

\* the update of the try block with the tags made unique
CompletedUpdatesDedup(p) ==
    [ ocrText          |-> p.ocrText,
      aiSummary        |-> p.summary,
      tags             |-> Dedup(p.tags),
      processingStatus |-> "completed" ]

\* the update of the try block
CompletedUpdates(p) ==
    [ ocrText          |-> p.ocrText,
      aiSummary        |-> p.summary,
      tags             |-> p.tags,
      processingStatus |-> "completed" ]

\* the update of the catch block
FailedUpdates == [ processingStatus |-> "failed" ]

\* the four columns the pipeline writes
Persisted(row) ==
    [ ocrText          |-> row.ocrText,
      aiSummary        |-> row.aiSummary,
      tags             |-> row.tags,
      processingStatus |-> row.processingStatus ]

----------------------------------------------------------------------------
(* FileProcessor.processFile, continuation by continuation *)

\* the text for the language model without the extracted text
TextForAINameOnly(p) == p.file.originalName

\* const textForAI = ocrText || file.originalName
TextForAI(p) == IF p.ocrText # <<>> THEN p.ocrText ELSE p.file.originalName

\* an entry of a run's log: a call of a step is made, or it has ended
Started(step) == [step |-> step, ended |-> FALSE]

CallEnded(step) == [step |-> step, ended |-> TRUE]

\* a pipeline that writes an intermediate state before the final one
AfterTagsTwoWrites(p) ==
    [p EXCEPT !.pc = "write", !.writes = @ + 2, !.log = Append(@, Started("write"))]

\* after the tagging step: storage.updateFile(completed) is called
AfterTags(p) ==
    [p EXCEPT !.pc = "write", !.writes = @ + 1, !.log = Append(@, Started("write"))]

\* after the summary step: the tagging step
AfterSummary(p) ==
    IF p.options.autoTag /\ TextForAI(p) # <<>>
    THEN [p EXCEPT !.pc = "tags", !.tagInput = TextForAI(p), !.lmCalls = @ + 1,
                   !.log = Append(@, Started("tags"))]
    ELSE AfterTags(p)

\* after the OCR step: the summary step
AfterOcr(p) ==
    IF p.options.generateSummary /\ TextForAI(p) # <<>>
    THEN [p EXCEPT !.pc = "summary", !.sumInput = TextForAI(p), !.lmCalls = @ + 1,
                   !.log = Append(@, Started("summary"))]
    ELSE AfterSummary(p)

\* the locals of a fresh invocation
FreshProc(file, options, run, first) ==
    [ pc       |-> "start",
      file     |-> file,
      options  |-> options,
      ocrText  |-> <<>>,
      summary  |-> <<>>,
      tags     |-> <<>>,
      ocrCalls |-> 0,
      lmCalls  |-> 0,
      writes   |-> 0,
      ocrOk    |-> TRUE,
      sumOk    |-> TRUE,
      tagOk    |-> TRUE,
      sumInput |-> NotCalled,
      tagInput |-> NotCalled,
      log      |-> <<>>,
      run      |-> run,
      first    |-> first ]

\* processFile that calls the summarizer without awaiting the extraction
StartProcessEager(file, options, run, first) ==
    LET p == FreshProc(file, options, run, first)
    IN  IF options.processOcr /\ IsOCRSupported(file.mimeType)
        THEN [p EXCEPT !.pc = "ocr", !.ocrCalls = @ + 1,
                       !.log = <<Started("ocr"), Started("summary")>>]
        ELSE AfterOcr(p)

\* processFile up to its first await
StartProcess(file, options, run, first) ==
    LET p == FreshProc(file, options, run, first)
    IN  IF options.processOcr /\ IsOCRSupported(file.mimeType)
        THEN [p EXCEPT !.pc = "ocr", !.ocrCalls = @ + 1,
                       !.log = Append(@, Started("ocr"))]
        ELSE AfterOcr(p)

\* a collaborator with fixed responses gives only that response
Gives(field, resp) == oracle.det => resp = oracle[field]

\* processFile whose extraction is not guarded: a throw of extractText
\* reaches the catch block
OcrReturnsUnguarded(f, resp) ==
    /\ f \in DOMAIN procs
    /\ procs[f].pc = "ocr"
    /\ Gives("ocr", resp)
    /\ LET r == ExtractText(resp)
           q == [procs[f] EXCEPT !.log = Append(@, CallEnded("ocr"))]
       IN  procs' = [procs EXCEPT ![f] =
              IF r.ok
              THEN AfterOcr([q EXCEPT !.ocrText = r.text])
              ELSE [q EXCEPT !.ocrOk = FALSE, !.pc = "writeFailed", !.writes = @ + 1,
                             !.log = Append(@, Started("writeFailed"))]]
    /\ UNCHANGED <<reqs, files, nextFileId, folders, nextFolderId, oracle, ocrService, commands, disk>>

\* ocrService.extractText has returned or thrown
OcrReturns(f, resp) ==
    /\ f \in DOMAIN procs
    /\ procs[f].pc = "ocr"
    /\ Gives("ocr", resp)
    /\ LET r == ExtractText(resp)
           q == [procs[f] EXCEPT !.log = Append(@, CallEnded("ocr"))]
           p == IF r.ok
                THEN [q EXCEPT !.ocrText = r.text]
                ELSE [q EXCEPT !.ocrOk = FALSE]
       IN  procs' = [procs EXCEPT ![f] = AfterOcr(p)]
    /\ UNCHANGED <<reqs, files, nextFileId, folders, nextFolderId, oracle, ocrService, commands, disk>>

\* openaiService.summarizeDocument has returned
SummaryReturns(f, resp) ==
    /\ f \in DOMAIN procs
    /\ procs[f].pc = "summary"
    /\ Gives("sum", resp)
    /\ LET p == [procs[f] EXCEPT !.summary = SummarizeDocument(resp),
                                 !.sumOk = resp.ok,
                                 !.log = Append(@, CallEnded("summary"))]
       IN  procs' = [procs EXCEPT ![f] = AfterSummary(p)]
    /\ UNCHANGED <<reqs, files, nextFileId, folders, nextFolderId, oracle, ocrService, commands, disk>>

\* openaiService.generateTags has returned
TagsReturns(f, resp) ==
    /\ f \in DOMAIN procs
    /\ procs[f].pc = "tags"
    /\ Gives("tag", resp)
    /\ LET p == [procs[f] EXCEPT !.tags = GenerateTags(resp),
                                 !.tagOk = resp.ok /\ resp.json # "bad",
                                 !.log = Append(@, CallEnded("tags"))]
       IN  procs' = [procs EXCEPT ![f] = AfterTags(p)]
    /\ UNCHANGED <<reqs, files, nextFileId, folders, nextFolderId, oracle, ocrService, commands, disk>>

\* storage.updateFile(completed) has returned (ok) or thrown
WriteCompletedReturns(f, ok) ==
    /\ f \in DOMAIN procs
    /\ procs[f].pc = "write"
    /\ Gives("wc", ok)
    /\ IF ok
       THEN /\ files' = UpdateFile(files, f, CompletedUpdates(procs[f]))
            /\ procs' = [procs EXCEPT ![f].pc = "returned",
                                      ![f].log = Append(@, CallEnded("write"))]
       ELSE /\ files' = files
            /\ procs' = [procs EXCEPT ![f].pc = "writeFailed", ![f].writes = @ + 1,
                                      ![f].log = @ \o <<CallEnded("write"),
                                                        Started("writeFailed")>>]
    /\ UNCHANGED <<reqs, nextFileId, folders, nextFolderId, oracle, ocrService, commands, disk>>

\* storage.updateFile(failed) of the catch block has returned (ok) or thrown
WriteFailedReturns(f, ok) ==
    /\ f \in DOMAIN procs
    /\ procs[f].pc = "writeFailed"
    /\ Gives("wf", ok)
    /\ IF ok
       THEN /\ files' = UpdateFile(files, f, FailedUpdates)
            /\ procs' = [procs EXCEPT ![f].pc = "returned",
                                      ![f].log = Append(@, CallEnded("writeFailed"))]
       ELSE /\ files' = files
            /\ procs' = [procs EXCEPT ![f].pc = "rejected",
                                      ![f].log = Append(@, CallEnded("writeFailed"))]
    /\ UNCHANGED <<reqs, nextFileId, folders, nextFolderId, oracle, ocrService, commands, disk>>

\* processFile is called again on the same file record with the same options
Rerun(f) ==
    /\ f \in DOMAIN procs
    /\ f \in DOMAIN files
    /\ procs[f].pc \in {"returned", "rejected"}
    /\ procs[f].run < MaxRuns
    /\ procs' = [procs EXCEPT ![f] =
           StartProcess(@.file, @.options, @.run + 1,
                        IF @.run = 1 THEN Persisted(files[f]) ELSE @.first)]
    /\ UNCHANGED <<reqs, files, nextFileId, folders, nextFolderId, oracle, ocrService, commands, disk>>

----------------------------------------------------------------------------
(* POST /api/files/upload *)

BodyValues == {JsUndefined, StrTrue, StrFalse}

\* what an upload counts against the bound on uploaded parts: its parts,
\* and one for an upload without parts
PartsCost(parts) == IF parts = <<>> THEN 1 ELSE Len(parts)

\* the count of the uploads received so far
RECURSIVE PartsRequested(_)
PartsRequested(rs) ==
    IF rs = <<>> THEN 0
    ELSE (IF Head(rs).kind = "upload" THEN PartsCost(Head(rs).parts) ELSE 0)
         + PartsRequested(Tail(rs))

\* folderId ? parseInt(folderId) : null, for a multipart field that is
\* absent (Null) or the decimal string of a number
ParseFolderId(v) == IF v # Null THEN v ELSE Null

\* multer's disk storage: the bytes of every part are written under a
\* file name of their own (here the request's number and the part's) before
\* the handler runs
MulterStore(k, parts) ==
    [i \in 1..Len(parts) |-> parts[i] @@ [path |-> <<k, i>>]]

\* the request arrives: multer stores the parts and the handler runs up to
\* its first await
StartUpload(u, folderId, po, gs, at, parts) ==
    /\ disk' = disk \cup {<<Len(reqs) + 1, i>> : i \in 1..Len(parts)}
    /\ reqs' = Append(reqs,
          [ kind   |-> "upload",
            userId |-> u,
            body   |-> [folderId |-> folderId, processOcr |-> po,
                        generateSummary |-> gs, autoTag |-> at],
            opts   |-> [processOcr      |-> DestructureDefault(po),
                        generateSummary |-> DestructureDefault(gs),
                        autoTag         |-> DestructureDefault(at)],
            parts  |-> MulterStore(Len(reqs) + 1, parts),
            i      |-> 1,
            uploadedFiles |-> <<>>,
            pc     |-> IF parts = <<>> THEN "done" ELSE "createFile",
            status |-> IF parts = <<>> THEN 400 ELSE 0 ])
    /\ UNCHANGED <<files, nextFileId, procs, folders, nextFolderId, oracle, ocrService, commands>>

\* storage.createFile has returned (ok) or thrown: the pipeline of the new
\* record is started and not awaited, and after the last part the response
\* is sent
UploadCreateFile(k, ok) ==
    /\ k \in DOMAIN reqs
    /\ reqs[k].kind = "upload"
    /\ reqs[k].pc = "createFile"
    /\ LET r        == reqs[k]
           folderId == ParseFolderId(r.body.folderId)
           fkOk     == folderId = Null \/ folderId \in DOMAIN folders
           newFile  == [id |-> nextFileId]
                       @@ InsertFileValues(r.userId, folderId, r.parts[r.i])
           uploaded == Append(r.uploadedFiles, newFile)
       IN  IF ok /\ fkOk
           THEN /\ files' = (nextFileId :> InsertFileValues(r.userId, folderId, r.parts[r.i])) @@ files
                /\ nextFileId' = nextFileId + 1
                /\ procs' = (nextFileId :> StartProcess(newFile, ProcessingOptions(r.opts), 1,
                                                        Persisted(newFile))) @@ procs
                /\ reqs' = [reqs EXCEPT ![k] =
                      IF r.i = Len(r.parts)
                      THEN [r EXCEPT !.uploadedFiles = uploaded, !.pc = "done", !.status = 200]
                      ELSE [r EXCEPT !.uploadedFiles = uploaded, !.i = @ + 1]]
           ELSE /\ reqs' = [reqs EXCEPT ![k].pc = "done", ![k].status = 500]
                /\ UNCHANGED <<files, nextFileId, procs>>
    /\ UNCHANGED <<folders, nextFolderId, oracle, ocrService, commands, disk>>

----------------------------------------------------------------------------
(* Folder handlers *)

FolderNames == {<<"A">>, <<"B">>}

\* if (parentId): null, undefined and 0 are falsy
Truthy(v) == v \notin {Null, Undefined, 0}

\* `${parentFolder.path}/${name}`
JoinPath(parentPath, name) == parentPath \o <<"/">> \o name

\* some file's folderId or some folder's parentId is id
Referenced(id) ==
    \/ \E f \in DOMAIN files : files[f].folderId = id
    \/ \E g \in DOMAIN folders : folders[g].parentId = id

\* POST /api/folders arrives: the handler runs up to its first await
StartCreateFolder(u, name, parentId) ==
    /\ Len(reqs) < MaxReqs
    /\ reqs' = Append(reqs,
          [ kind     |-> "createFolder",
            userId   |-> u,
            name     |-> name,
            parentId |-> parentId,
            path     |-> name,
            parentFolder |-> <<>>,
            folder   |-> <<>>,
            pc       |-> IF Truthy(parentId) THEN "getParent" ELSE "insert",
            status   |-> 0 ])
    /\ UNCHANGED <<files, nextFileId, procs, folders, nextFolderId, oracle, ocrService, commands, disk>>

\* storage.getFolderById(parentId) has returned (ok) or thrown
CreateFolderGetParent(k, ok) ==
    /\ k \in DOMAIN reqs
    /\ reqs[k].kind = "createFolder"
    /\ reqs[k].pc = "getParent"
    /\ LET r == reqs[k]
       IN  reqs' = [reqs EXCEPT ![k] =
              IF ~ok THEN [r EXCEPT !.pc = "done", !.status = 500]
              ELSE IF r.parentId \in DOMAIN folders
              THEN [r EXCEPT !.pc = "insert",
                             !.parentFolder = <<folders[r.parentId]>>,
                             !.path = JoinPath(folders[r.parentId].path, r.name)]
              ELSE [r EXCEPT !.pc = "insert"]]
    /\ UNCHANGED <<files, nextFileId, procs, folders, nextFolderId, oracle, ocrService, commands, disk>>

\* storage.createFolder has returned (ok) or thrown
CreateFolderInsert(k, ok) ==
    /\ k \in DOMAIN reqs
    /\ reqs[k].kind = "createFolder"
    /\ reqs[k].pc = "insert"
    /\ LET r == reqs[k]
           row == [ userId   |-> r.userId,
                    name     |-> r.name,
                    parentId |-> IF Truthy(r.parentId) THEN r.parentId ELSE Null,
                    path     |-> r.path ]
       IN  IF ok
           THEN /\ folders' = (nextFolderId :> row) @@ folders
                /\ nextFolderId' = nextFolderId + 1
                /\ reqs' = [reqs EXCEPT ![k].pc = "done", ![k].status = 200,
                                        ![k].folder = <<row>>]
           ELSE /\ reqs' = [reqs EXCEPT ![k].pc = "done", ![k].status = 500]
                /\ UNCHANGED <<folders, nextFolderId>>
    /\ UNCHANGED <<files, nextFileId, procs, oracle, ocrService, commands, disk>>

\* DELETE /api/folders/:id arrives: the handler runs up to its first await;
\* refAtStart, refAtDelete and removed record what the store held when the
\* request arrived and when its delete statement ran
StartDeleteFolder(u, id) ==
    /\ Len(reqs) < MaxReqs
    /\ reqs' = Append(reqs,
          [ kind       |-> "deleteFolder",
            userId     |-> u,
            folderId   |-> id,
            nFiles     |-> 0,
            refAtStart |-> Referenced(id),
            refAtDelete |-> FALSE,
            removed    |-> FALSE,
            pc         |-> "getFiles",
            status     |-> 0 ])
    /\ UNCHANGED <<files, nextFileId, procs, folders, nextFolderId, oracle, ocrService, commands, disk>>

\* storage.getFilesByFolderId has returned (ok) or thrown
DeleteFolderGetFiles(k, ok) ==
    /\ k \in DOMAIN reqs
    /\ reqs[k].kind = "deleteFolder"
    /\ reqs[k].pc = "getFiles"
    /\ LET r == reqs[k]
           found == {f \in DOMAIN files : files[f].folderId = r.folderId}
       IN  reqs' = [reqs EXCEPT ![k] =
              IF ok
              THEN [r EXCEPT !.pc = "getFolders", !.nFiles = Cardinality(found)]
              ELSE [r EXCEPT !.pc = "done", !.status = 500]]
    /\ UNCHANGED <<files, nextFileId, procs, folders, nextFolderId, oracle, ocrService, commands, disk>>

\* storage.getFoldersByUserId(requester) has returned (ok) or thrown: the
\* handler answers 400 or calls storage.deleteFolder
DeleteFolderGetFolders(k, ok) ==
    /\ k \in DOMAIN reqs
    /\ reqs[k].kind = "deleteFolder"
    /\ reqs[k].pc = "getFolders"
    /\ LET r == reqs[k]
           allFolders == {g \in DOMAIN folders : folders[g].userId = r.userId}
           subfolders == {g \in allFolders : folders[g].parentId = r.folderId}
       IN  reqs' = [reqs EXCEPT ![k] =
              IF ~ok THEN [r EXCEPT !.pc = "done", !.status = 500]
              ELSE IF r.nFiles > 0 \/ Cardinality(subfolders) > 0
              THEN [r EXCEPT !.pc = "done", !.status = 400]
              ELSE [r EXCEPT !.pc = "delete"]]
    /\ UNCHANGED <<files, nextFileId, procs, folders, nextFolderId, oracle, ocrService, commands, disk>>

\* storage.deleteFolder has returned (ok) or thrown; the foreign key of
\* files.folder_id makes it throw while a file references the folder
DeleteFolderDelete(k, ok) ==
    /\ k \in DOMAIN reqs
    /\ reqs[k].kind = "deleteFolder"
    /\ reqs[k].pc = "delete"
    /\ LET r == reqs[k]
           fkOk == \A f \in DOMAIN files : files[f].folderId # r.folderId
       IN  IF ok /\ fkOk
           THEN /\ folders' = [g \in DOMAIN folders \ {r.folderId} |-> folders[g]]
                /\ reqs' = [reqs EXCEPT ![k].pc = "done", ![k].status = 200,
                                        ![k].refAtDelete = Referenced(r.folderId),
                                        ![k].removed = r.folderId \in DOMAIN folders]
           ELSE /\ folders' = folders
                /\ reqs' = [reqs EXCEPT ![k].pc = "done", ![k].status = 500]
    /\ UNCHANGED <<files, nextFileId, procs, nextFolderId, oracle, ocrService, commands, disk>>

\* updateFolder that also rebuilds the paths of the folder's children
UpdateFolderCascade(table, id, updates) ==
    [g \in DOMAIN table |->
        IF g = id THEN updates @@ table[g]
        ELSE IF table[g].parentId = id
        THEN [table[g] EXCEPT !.path = JoinPath(updates.path, table[g].name)]
        ELSE table[g]]

\* updateFolder that leaves the stored path as it is
UpdateFolderKeepPath(table, id, updates) ==
    IF id \in DOMAIN table
    THEN [table EXCEPT ![id] = [name |-> updates.name, parentId |-> updates.parentId] @@ @]
    ELSE table

\* DatabaseStorage.updateFolder: sets the given columns of the row with
\* that id; no row, no change (and no error)
UpdateFolder(table, id, updates) ==
    IF id \in DOMAIN table
    THEN [table EXCEPT ![id] = updates @@ @]
    ELSE table

\* PUT /api/folders/:id arrives: the handler runs up to its first await;
\* before records the row as it was when the update statement ran, and
\* updatedFolder is the row the statement returned
StartUpdateFolder(u, id, name, parentId) ==
    /\ Len(reqs) < MaxReqs
    /\ reqs' = Append(reqs,
          [ kind     |-> "updateFolder",
            userId   |-> u,
            folderId |-> id,
            name     |-> name,
            parentId |-> parentId,
            path     |-> name,
            parentFolder  |-> <<>>,
            before        |-> <<>>,
            updatedFolder |-> <<>>,
            pc       |-> IF Truthy(parentId) THEN "getParent" ELSE "update",
            status   |-> 0 ])
    /\ UNCHANGED <<files, nextFileId, procs, folders, nextFolderId, oracle, ocrService, commands, disk>>

\* storage.getFolderById(parentId) has returned (ok) or thrown
UpdateFolderGetParent(k, ok) ==
    /\ k \in DOMAIN reqs
    /\ reqs[k].kind = "updateFolder"
    /\ reqs[k].pc = "getParent"
    /\ LET r == reqs[k]
       IN  reqs' = [reqs EXCEPT ![k] =
              IF ~ok THEN [r EXCEPT !.pc = "done", !.status = 500]
              ELSE IF r.parentId \in DOMAIN folders
              THEN [r EXCEPT !.pc = "update",
                             !.parentFolder = <<folders[r.parentId]>>,
                             !.path = JoinPath(folders[r.parentId].path, r.name)]
              ELSE [r EXCEPT !.pc = "update"]]
    /\ UNCHANGED <<files, nextFileId, procs, folders, nextFolderId, oracle, ocrService, commands, disk>>

\* storage.updateFolder has returned (ok) or thrown
UpdateFolderUpdate(k, ok) ==
    /\ k \in DOMAIN reqs
    /\ reqs[k].kind = "updateFolder"
    /\ reqs[k].pc = "update"
    /\ LET r == reqs[k]
           updates == [ name     |-> r.name,
                        parentId |-> IF Truthy(r.parentId) THEN r.parentId ELSE Null,
                        path     |-> r.path ]
       IN  IF ok
           THEN /\ folders' = UpdateFolder(folders, r.folderId, updates)
                /\ reqs' = [reqs EXCEPT ![k] =
                      IF r.folderId \in DOMAIN folders
                      THEN [r EXCEPT !.pc = "done", !.status = 200,
                                     !.before = <<folders[r.folderId]>>,
                                     !.updatedFolder =
                                        <<UpdateFolder(folders, r.folderId, updates)[r.folderId]>>]
                      ELSE [r EXCEPT !.pc = "done", !.status = 200]]
           ELSE /\ folders' = folders
                /\ reqs' = [reqs EXCEPT ![k].pc = "done", ![k].status = 500]
    /\ UNCHANGED <<files, nextFileId, procs, nextFolderId, oracle, ocrService, commands, disk>>

----------------------------------------------------------------------------
(* AI commands: POST /api/ai/command and OpenAIService.processCommand *)

CommandTexts == {<<"m">>}

\* SQL NULL of the jsonb column result
NullJson == [null |-> TRUE]

\* the result the catch block stores
ErrorPayload == [error |-> "Failed to process command"]

\* chat.completions.create for a command: throws, or a content that does
\* not parse, or one that parses to a proposed action
CommandResponses ==
    { [ok |-> FALSE, json |-> "none", action |-> "none"],
      [ok |-> TRUE,  json |-> "bad",  action |-> "none"],
      [ok |-> TRUE,  json |-> "ok",   action |-> "move_files"],
      [ok |-> TRUE,  json |-> "ok",   action |-> "create_folder"] }

\* JSON.parse(response.choices[0].message.content)
ParseCommandResult(resp) == [action |-> resp.action]

\* DatabaseStorage.updateAiCommand: sets the given columns of the row with
\* that id and counts the update
UpdateAiCommand(table, id, updates) ==
    [table EXCEPT ![id] = [updates @@ @ EXCEPT !.updates = @ + 1]]

\* the request arrives: the handler runs up to its first await
StartCommand(u, command) ==
    /\ Len(reqs) < MaxReqs
    /\ reqs' = Append(reqs,
          [ kind    |-> "command",
            userId  |-> u,
            command |-> command,
            pc      |-> "createAiCommand",
            status  |-> 0 ])
    /\ UNCHANGED <<files, nextFileId, procs, folders, nextFolderId, oracle, ocrService, commands, disk>>

\* storage.createAiCommand has returned (ok) or thrown: processCommand is
\* started and not awaited, it runs up to the language-model call, and the
\* response is sent
CommandCreate(k, ok) ==
    /\ k \in DOMAIN reqs
    /\ reqs[k].kind = "command"
    /\ reqs[k].pc = "createAiCommand"
    /\ IF ok
       THEN /\ commands' = Append(commands,
                  [ userId  |-> reqs[k].userId,
                    command |-> reqs[k].command,
                    status  |-> "processing",
                    result  |-> NullJson,
                    updates |-> 0,
                    pc      |-> "lm",
                    lmCalls |-> 1,
                    parsed  |-> NullJson ])
            /\ reqs' = [reqs EXCEPT ![k].pc = "done", ![k].status = 200]
       ELSE /\ commands' = commands
            /\ reqs' = [reqs EXCEPT ![k].pc = "done", ![k].status = 500]
    /\ UNCHANGED <<files, nextFileId, procs, folders, nextFolderId, oracle, ocrService, disk>>

\* chat.completions.create has returned or thrown, and the content is
\* parsed: updateAiCommand is called by the try block or by the catch block
CommandLmReturns(c, resp) ==
    /\ c \in DOMAIN commands
    /\ commands[c].pc = "lm"
    /\ commands' = [commands EXCEPT ![c] =
          IF resp.ok /\ resp.json = "ok"
          THEN [@ EXCEPT !.pc = "write", !.parsed = ParseCommandResult(resp)]
          ELSE [@ EXCEPT !.pc = "writeFailed"]]
    /\ UNCHANGED <<reqs, files, nextFileId, procs, folders, nextFolderId, oracle, ocrService, disk>>

\* processCommand that carries out a proposed create_folder
CommandWriteCompletedExecutes(c, ok) ==
    /\ c \in DOMAIN commands
    /\ commands[c].pc = "write"
    /\ commands' = [UpdateAiCommand(commands, c,
                        [result |-> commands[c].parsed, status |-> "completed"])
                    EXCEPT ![c].pc = "returned"]
    /\ folders' = IF commands[c].parsed.action = "create_folder"
                  THEN (nextFolderId :> [userId |-> commands[c].userId, name |-> <<"N">>,
                                         parentId |-> Null, path |-> <<"N">>]) @@ folders
                  ELSE folders
    /\ nextFolderId' = nextFolderId + 1
    /\ UNCHANGED <<reqs, files, nextFileId, procs, oracle, ocrService, disk>>

\* storage.updateAiCommand(completed) has returned (ok) or thrown
CommandWriteCompletedReturns(c, ok) ==
    /\ c \in DOMAIN commands
    /\ commands[c].pc = "write"
    /\ commands' =
          IF ok
          THEN [UpdateAiCommand(commands, c,
                   [result |-> commands[c].parsed, status |-> "completed"])
                EXCEPT ![c].pc = "returned"]
          ELSE [commands EXCEPT ![c].pc = "writeFailed"]
    /\ UNCHANGED <<reqs, files, nextFileId, procs, folders, nextFolderId, oracle, ocrService, disk>>

\* storage.updateAiCommand(failed) of the catch block has returned (ok) or
\* thrown
CommandWriteFailedReturns(c, ok) ==
    /\ c \in DOMAIN commands
    /\ commands[c].pc = "writeFailed"
    /\ commands' =
          IF ok
          THEN [UpdateAiCommand(commands, c,
                   [status |-> "failed", result |-> ErrorPayload])
                EXCEPT ![c].pc = "returned"]
          ELSE [commands EXCEPT ![c].pc = "rejected"]
    /\ UNCHANGED <<reqs, files, nextFileId, procs, folders, nextFolderId, oracle, ocrService, disk>>

----------------------------------------------------------------------------
(* File handlers: PUT /api/files/:id, PUT /api/files/:id/move and
   DELETE /api/files/:id *)

\* req.body of PUT /api/files/:id, passed to updateFile as it is: no
\* column, a column with a value of its kind, a status of the client's own
FileUpdateBodies ==
    { <<>>,
      [originalName |-> <<"r">>],
      [tags |-> << <<"t">> >>],
      [processingStatus |-> "archived"] }

\* where the pipeline of file id stands
PipelineAt(id) == IF id \in DOMAIN procs THEN procs[id].pc ELSE "none"

\* PUT /api/files/:id arrives: the handler runs up to its first await;
\* wrote and pipelineAtWrite record whether the update statement found the
\* row and where the file's pipeline stood when it ran
StartUpdateFile(u, id, body) ==
    /\ Len(reqs) < MaxReqs
    /\ reqs' = Append(reqs,
          [ kind   |-> "updateFile",
            userId |-> u,
            fileId |-> id,
            body   |-> body,
            wrote  |-> FALSE,
            pipelineAtWrite |-> "none",
            pc     |-> "updateFile",
            status |-> 0 ])
    /\ UNCHANGED <<files, nextFileId, procs, folders, nextFolderId, oracle, ocrService, commands, disk>>

\* storage.updateFile(fileId, req.body) has returned (ok) or thrown
UpdateFileReturns(k, ok) ==
    /\ k \in DOMAIN reqs
    /\ reqs[k].kind = "updateFile"
    /\ reqs[k].pc = "updateFile"
    /\ IF ok
       THEN /\ files' = UpdateFile(files, reqs[k].fileId, reqs[k].body)
            /\ reqs' = [reqs EXCEPT ![k].pc = "done", ![k].status = 200,
                                    ![k].wrote = reqs[k].fileId \in DOMAIN files,
                                    ![k].pipelineAtWrite = PipelineAt(reqs[k].fileId)]
       ELSE /\ files' = files
            /\ reqs' = [reqs EXCEPT ![k].pc = "done", ![k].status = 500]
    /\ UNCHANGED <<nextFileId, procs, folders, nextFolderId, oracle, ocrService, commands, disk>>

\* PUT /api/files/:id/move arrives: the handler runs up to its first await
StartMoveFile(u, id, folderId) ==
    /\ Len(reqs) < MaxReqs
    /\ reqs' = Append(reqs,
          [ kind     |-> "moveFile",
            userId   |-> u,
            fileId   |-> id,
            folderId |-> IF Truthy(folderId) THEN folderId ELSE Null,
            wrote    |-> FALSE,
            pipelineAtWrite |-> "none",
            pc       |-> "updateFile",
            status   |-> 0 ])
    /\ UNCHANGED <<files, nextFileId, procs, folders, nextFolderId, oracle, ocrService, commands, disk>>

\* storage.updateFile(fileId, {folderId}) has returned (ok) or thrown; the
\* foreign key of files.folder_id makes it throw for a folder that does
\* not exist
MoveFileReturns(k, ok) ==
    /\ k \in DOMAIN reqs
    /\ reqs[k].kind = "moveFile"
    /\ reqs[k].pc = "updateFile"
    /\ LET r    == reqs[k]
           fkOk == \/ r.fileId \notin DOMAIN files
                   \/ r.folderId = Null
                   \/ r.folderId \in DOMAIN folders
       IN  IF ok /\ fkOk
           THEN /\ files' = UpdateFile(files, r.fileId, [folderId |-> r.folderId])
                /\ reqs' = [reqs EXCEPT ![k].pc = "done", ![k].status = 200,
                                        ![k].wrote = r.fileId \in DOMAIN files,
                                        ![k].pipelineAtWrite = PipelineAt(r.fileId)]
           ELSE /\ files' = files
                /\ reqs' = [reqs EXCEPT ![k].pc = "done", ![k].status = 500]
    /\ UNCHANGED <<nextFileId, procs, folders, nextFolderId, oracle, ocrService, commands, disk>>

\* DELETE /api/files/:id arrives: the handler runs up to its first await;
\* pipelineAtDelete records where the file's pipeline stood when the
\* delete statement ran
StartDeleteFile(u, id) ==
    /\ Len(reqs) < MaxReqs
    /\ reqs' = Append(reqs,
          [ kind   |-> "deleteFile",
            userId |-> u,
            fileId |-> id,
            file   |-> <<>>,
            pipelineAtDelete |-> "none",
            pc     |-> "getFileById",
            status |-> 0 ])
    /\ UNCHANGED <<files, nextFileId, procs, folders, nextFolderId, oracle, ocrService, commands, disk>>

\* storage.getFileById has returned (ok) or thrown: for a record that
\* exists the bytes are unlinked if they are there, and storage.deleteFile
\* is called
DeleteFileGetFile(k, ok) ==
    /\ k \in DOMAIN reqs
    /\ reqs[k].kind = "deleteFile"
    /\ reqs[k].pc = "getFileById"
    /\ LET r == reqs[k]
       IN  IF ~ok
           THEN /\ reqs' = [reqs EXCEPT ![k].pc = "done", ![k].status = 500]
                /\ disk' = disk
           ELSE IF r.fileId \in DOMAIN files
           THEN /\ reqs' = [reqs EXCEPT ![k].pc = "deleteFile",
                                        ![k].file = <<files[r.fileId]>>]
                /\ disk' = disk \ {files[r.fileId].filePath}
           ELSE /\ reqs' = [reqs EXCEPT ![k].pc = "done", ![k].status = 200]
                /\ disk' = disk
    /\ UNCHANGED <<files, nextFileId, procs, folders, nextFolderId, oracle, ocrService, commands>>

\* storage.deleteFile has returned (ok) or thrown
DeleteFileDelete(k, ok) ==
    /\ k \in DOMAIN reqs
    /\ reqs[k].kind = "deleteFile"
    /\ reqs[k].pc = "deleteFile"
    /\ IF ok
       THEN /\ files' = [f \in DOMAIN files \ {reqs[k].fileId} |-> files[f]]
            /\ reqs' = [reqs EXCEPT ![k].pc = "done", ![k].status = 200,
                                    ![k].pipelineAtDelete = PipelineAt(reqs[k].fileId)]
       ELSE /\ files' = files
            /\ reqs' = [reqs EXCEPT ![k].pc = "done", ![k].status = 500]
    /\ UNCHANGED <<nextFileId, procs, folders, nextFolderId, oracle, ocrService, commands, disk>>

----------------------------------------------------------------------------
(* POST /api/onboarding *)

\* generateFolderStructure: throws, or result.folders || [] : no folder, or
\* a folder and a subfolder numbered as in the prompt's example
FolderStructureResponses ==
    { [ok |-> FALSE, folders |-> <<>>],
      [ok |-> TRUE,  folders |-> <<>>],
      [ok |-> TRUE,  folders |->
          << [name |-> <<"A">>, parentId |-> Null, path |-> <<"A">>],
             [name |-> <<"B">>, parentId |-> 1,    path |-> <<"A", "/", "B">>] >>] }

\* the request arrives: the handler runs up to its first await
StartOnboarding(u) ==
    /\ Len(reqs) < MaxReqs
    /\ reqs' = Append(reqs,
          [ kind    |-> "onboarding",
            userId  |-> u,
            folderStructure |-> <<>>,
            i       |-> 1,
            created |-> <<>>,
            pc      |-> "upsertUser",
            status  |-> 0 ])
    /\ UNCHANGED <<files, nextFileId, procs, folders, nextFolderId, oracle, ocrService, commands, disk>>

\* storage.upsertUser has returned (ok) or thrown
OnboardingUpsertUser(k, ok) ==
    /\ k \in DOMAIN reqs
    /\ reqs[k].kind = "onboarding"
    /\ reqs[k].pc = "upsertUser"
    /\ reqs' = [reqs EXCEPT ![k] =
          IF ok THEN [@ EXCEPT !.pc = "generateFolderStructure"]
          ELSE [@ EXCEPT !.pc = "done", !.status = 500]]
    /\ UNCHANGED <<files, nextFileId, procs, folders, nextFolderId, oracle, ocrService, commands, disk>>

\* openaiService.generateFolderStructure has returned or thrown
OnboardingGenerate(k, resp) ==
    /\ k \in DOMAIN reqs
    /\ reqs[k].kind = "onboarding"
    /\ reqs[k].pc = "generateFolderStructure"
    /\ reqs' = [reqs EXCEPT ![k] =
          IF ~resp.ok THEN [@ EXCEPT !.pc = "done", !.status = 500]
          ELSE IF resp.folders = <<>> THEN [@ EXCEPT !.pc = "done", !.status = 200]
          ELSE [@ EXCEPT !.pc = "createFolder", !.folderStructure = resp.folders]]
    /\ UNCHANGED <<files, nextFileId, procs, folders, nextFolderId, oracle, ocrService, commands, disk>>

\* storage.createFolder of the loop has returned (ok) or thrown; created
\* records the ids the request's inserts were given
OnboardingCreateFolder(k, ok) ==
    /\ k \in DOMAIN reqs
    /\ reqs[k].kind = "onboarding"
    /\ reqs[k].pc = "createFolder"
    /\ LET r      == reqs[k]
           folder == r.folderStructure[r.i]
           row    == [ userId   |-> r.userId,
                       name     |-> folder.name,
                       parentId |-> folder.parentId,
                       path     |-> folder.path ]
       IN  IF ok
           THEN /\ folders' = (nextFolderId :> row) @@ folders
                /\ nextFolderId' = nextFolderId + 1
                /\ reqs' = [reqs EXCEPT ![k] =
                      IF r.i = Len(r.folderStructure)
                      THEN [r EXCEPT !.created = Append(@, nextFolderId),
                                     !.pc = "done", !.status = 200]
                      ELSE [r EXCEPT !.created = Append(@, nextFolderId),
                                     !.i = @ + 1]]
           ELSE /\ reqs' = [reqs EXCEPT ![k].pc = "done", ![k].status = 500]
                /\ UNCHANGED <<folders, nextFolderId>>
    /\ UNCHANGED <<files, nextFileId, procs, oracle, ocrService, commands, disk>>

----------------------------------------------------------------------------
(* Read handlers: GET /api/folders, GET /api/files, GET /api/files/:id and
   GET /api/ai/commands *)

\* a read request arrives: the handler runs up to its await of the store;
\* arg is the folderId of the query or the id of the path, if any
StartRead(u, kind, arg) ==
    /\ Len(reqs) < MaxReqs
    /\ reqs' = Append(reqs,
          [ kind     |-> kind,
            userId   |-> u,
            arg      |-> arg,
            returned |-> {},
            pc       |-> "select",
            status   |-> 0 ])
    /\ UNCHANGED <<files, nextFileId, procs, folders, nextFolderId, oracle, ocrService, commands, disk>>

\* the answer of a read handler: the rows, or an error
Respond(k, ok, rows) ==
    /\ reqs' = [reqs EXCEPT ![k] =
          IF ok THEN [@ EXCEPT !.pc = "done", !.status = 200, !.returned = rows]
          ELSE [@ EXCEPT !.pc = "done", !.status = 500]]
    /\ UNCHANGED <<files, nextFileId, procs, folders, nextFolderId, oracle, ocrService, commands, disk>>

\* GET /api/folders: storage.getFoldersByUserId(userId) has returned (ok)
\* or thrown
GetFoldersReturns(k, ok) ==
    /\ k \in DOMAIN reqs
    /\ reqs[k].kind = "getFolders"
    /\ reqs[k].pc = "select"
    /\ Respond(k, ok, {folders[g] : g \in {h \in DOMAIN folders :
                                             folders[h].userId = reqs[k].userId}})

\* GET /api/files: storage.getFilesByFolderId(folderId) for a query with a
\* folderId, storage.getFilesByUserId(userId) otherwise, has returned (ok)
\* or thrown
GetFilesReturns(k, ok) ==
    /\ k \in DOMAIN reqs
    /\ reqs[k].kind = "getFiles"
    /\ reqs[k].pc = "select"
    /\ Respond(k, ok,
          IF Truthy(reqs[k].arg)
          THEN {files[f] : f \in {h \in DOMAIN files : files[h].folderId = reqs[k].arg}}
          ELSE {files[f] : f \in {h \in DOMAIN files : files[h].userId = reqs[k].userId}})

\* GET /api/files/:id: storage.getFileById(fileId) has returned (ok) or
\* thrown; 404 without a record
GetFileReturns(k, ok) ==
    /\ k \in DOMAIN reqs
    /\ reqs[k].kind = "getFile"
    /\ reqs[k].pc = "select"
    /\ IF ok /\ reqs[k].arg \notin DOMAIN files
       THEN /\ reqs' = [reqs EXCEPT ![k].pc = "done", ![k].status = 404]
            /\ UNCHANGED <<files, nextFileId, procs, folders, nextFolderId, oracle, ocrService, commands, disk>>
       ELSE Respond(k, ok, IF ok THEN {files[reqs[k].arg]} ELSE {})

\* the columns of a row of ai_commands
CommandRow(c) ==
    [ userId |-> c.userId, command |-> c.command,
      status |-> c.status, result |-> c.result ]

\* GET /api/ai/commands: storage.getAiCommandsByUserId(userId) has returned
\* (ok) or thrown
GetCommandsReturns(k, ok) ==
    /\ k \in DOMAIN reqs
    /\ reqs[k].kind = "getCommands"
    /\ reqs[k].pc = "select"
    /\ Respond(k, ok, {CommandRow(commands[c]) :
                          c \in {d \in DOMAIN commands :
                                    commands[d].userId = reqs[k].userId}})

----------------------------------------------------------------------------
(* OCRService: the shared worker and the calls of extractText *)

\* export const ocrService = new OCRService(): worker is null; no worker
\* has been created; no call of extractText has been made
NewOCRService ==
    [ worker  |-> Null,
      created |-> 0,
      workers |-> <<>>,
      calls   |-> <<>> ]

\* a worker as createWorker gives it
NewWorker == [loaded |-> FALSE, initialized |-> FALSE]

\* a worker on which loadLanguage and initialize have both completed
Ready(w) == w.loaded /\ w.initialized

\* const { data: { text } } = await this.worker.recognize(filePath): the
\* call is made on the worker that this.worker holds now
CallRecognize(svc, c) ==
    [svc EXCEPT !.calls[c].pc = "recognize",
                !.calls[c].recognizeOn = svc.worker,
                !.calls[c].onReady = Ready(svc.workers[svc.worker])]

\* the catch block of extractText: throw new Error(...)
ExtractTextThrows(svc, c) == [svc EXCEPT !.calls[c].pc = "thrown"]

\* extractText is called by a pipeline: initialize() runs up to its first
\* await, which is createWorker() when this.worker is null; otherwise
\* initialize() returns and recognize is called
ExtractTextCalled ==
    /\ Len(ocrService.calls) < MaxOcrCalls
    /\ LET c   == Len(ocrService.calls) + 1
           svc == [ocrService EXCEPT !.calls = Append(@,
                      [pc |-> "start", target |-> Null, recognizeOn |-> Null,
                       onReady |-> FALSE])]
       IN  ocrService' =
              IF svc.worker = Null
              THEN [svc EXCEPT !.created = @ + 1, !.calls[c].pc = "createWorker"]
              ELSE CallRecognize(svc, c)
    /\ UNCHANGED <<reqs, files, nextFileId, procs, folders, nextFolderId, oracle, commands, disk>>

\* createWorker() has returned a worker (ok) or thrown: this.worker is
\* assigned and loadLanguage is called on it
CreateWorkerReturns(c, ok) ==
    /\ c \in DOMAIN ocrService.calls
    /\ ocrService.calls[c].pc = "createWorker"
    /\ ocrService' =
          IF ok
          THEN LET w == Len(ocrService.workers) + 1
               IN  [ocrService EXCEPT !.workers = Append(@, NewWorker),
                                      !.worker = w,
                                      !.calls[c].pc = "loadLanguage",
                                      !.calls[c].target = w]
          ELSE ExtractTextThrows(ocrService, c)
    /\ UNCHANGED <<reqs, files, nextFileId, procs, folders, nextFolderId, oracle, commands, disk>>

\* this.worker.loadLanguage('eng') has returned (ok) or thrown: initialize
\* is called on the worker that this.worker holds now
LoadLanguageReturns(c, ok) ==
    /\ c \in DOMAIN ocrService.calls
    /\ ocrService.calls[c].pc = "loadLanguage"
    /\ ocrService' =
          IF ok
          THEN [ocrService EXCEPT !.workers[ocrService.calls[c].target].loaded = TRUE,
                                  !.calls[c].pc = "initialize",
                                  !.calls[c].target = ocrService.worker]
          ELSE ExtractTextThrows(ocrService, c)
    /\ UNCHANGED <<reqs, files, nextFileId, procs, folders, nextFolderId, oracle, commands, disk>>

\* this.worker.initialize('eng') has returned (ok) or thrown: initialize()
\* returns and recognize is called
InitializeReturns(c, ok) ==
    /\ c \in DOMAIN ocrService.calls
    /\ ocrService.calls[c].pc = "initialize"
    /\ ocrService' =
          IF ok
          THEN CallRecognize(
                 [ocrService EXCEPT !.workers[ocrService.calls[c].target].initialized = TRUE],
                 c)
          ELSE ExtractTextThrows(ocrService, c)
    /\ UNCHANGED <<reqs, files, nextFileId, procs, folders, nextFolderId, oracle, commands, disk>>

\* this.worker.recognize(filePath) has returned (ok) or thrown
RecognizeReturns(c, ok) ==
    /\ c \in DOMAIN ocrService.calls
    /\ ocrService.calls[c].pc = "recognize"
    /\ ocrService' =
          IF ok
          THEN [ocrService EXCEPT !.calls[c].pc = "returned"]
          ELSE ExtractTextThrows(ocrService, c)
    /\ UNCHANGED <<reqs, files, nextFileId, procs, folders, nextFolderId, oracle, commands, disk>>

----------------------------------------------------------------------------
(* Specifications *)

Init ==
    /\ reqs = <<>>
    /\ files = <<>>
    /\ nextFileId = 1
    /\ procs = <<>>
    /\ folders = <<>>
    /\ nextFolderId = 1
    /\ oracle = [det |-> FALSE]
    /\ commands = <<>>
    /\ disk = {}
    /\ ocrService = NewOCRService

\* an upload arrives: at most `uploads` uploads of at most `budget` parts in
\* all, with option fields from `values` (an upload without parts is
\* rejected before its options are read)
UploadArrives(uploads, budget, values, names, types) ==
    /\ Len(reqs) < uploads
    /\ PartsRequested(reqs) < budget
    /\ \E n \in 0..(budget - PartsRequested(reqs)) :
       \E parts \in [1..n -> [originalname : names, mimetype : types]] :
       \E po, gs, at \in (IF n = 0 THEN {StrTrue} ELSE values) :
          StartUpload("u1", Null, po, gs, at, parts)

\* a continuation of an upload handler
UploadContinues ==
    \E k \in DOMAIN reqs, ok \in BOOLEAN : UploadCreateFile(k, ok)

\* the continuations of the pipelines, with every response of every collaborator
OcrEnds ==
    \E f \in DOMAIN procs, resp \in RecognizeResponses : OcrReturns(f, resp)

SummaryEnds ==
    \E f \in DOMAIN procs, resp \in SummaryResponses : SummaryReturns(f, resp)

TagsEnd ==
    \E f \in DOMAIN procs, resp \in TagResponses : TagsReturns(f, resp)

WriteCompletedEnds ==
    \E f \in DOMAIN procs, ok \in BOOLEAN : WriteCompletedReturns(f, ok)

WriteFailedEnds ==
    \E f \in DOMAIN procs, ok \in BOOLEAN : WriteFailedReturns(f, ok)

\* the continuations of the pipelines when the OCR engine and the language
\* model answer
OcrSucceeds ==
    \E f \in DOMAIN procs : OcrReturns(f, [ok |-> TRUE, text |-> <<" ", "x", " ">>])

SummarySucceeds ==
    \E f \in DOMAIN procs : SummaryReturns(f, [ok |-> TRUE, content |-> <<"s">>])

TagsSucceed ==
    \E f \in DOMAIN procs :
        TagsReturns(f, [ok |-> TRUE, json |-> "tags", tags |-> << <<"b">>, <<"a">>, <<"b">> >>])

\* Spec: uploads of files of every kind with every combination of options,
\* and their pipelines with every response of every collaborator
Next ==
    \/ UploadArrives(MaxFiles, MaxFiles, {StrTrue, StrFalse}, OriginalNames, MimeTypes)
    \/ UploadContinues
    \/ OcrEnds
    \/ SummaryEnds
    \/ TagsEnd
    \/ WriteCompletedEnds
    \/ WriteFailedEnds

Spec == Init /\ [][Next]_vars

\* every call that a handler or a pipeline awaits returns or throws
CallsReturn ==
    /\ WF_vars(UploadContinues)
    /\ WF_vars(OcrEnds)
    /\ WF_vars(SummaryEnds)
    /\ WF_vars(TagsEnd)
    /\ WF_vars(WriteCompletedEnds)
    /\ WF_vars(WriteFailedEnds)

\* FairSpec: Spec in which no awaited call stays pending for ever
FairSpec == Spec /\ CallsReturn

\* SpecUpload: uploads of several parts whose option fields may be absent;
\* the OCR engine and the language model answer, only the store may fail
NextUpload ==
    \/ UploadArrives(MaxUploads, MaxParts, BodyValues, {<<"n">>}, {"application/pdf"})
    \/ UploadContinues
    \/ OcrSucceeds
    \/ SummarySucceeds
    \/ TagsSucceed
    \/ WriteCompletedEnds
    \/ WriteFailedEnds

SpecUpload == Init /\ [][NextUpload]_vars

\* SpecRerun: processFile applied MaxRuns times to one file record, of any
\* kind and with any options, as the upload handler created it; every
\* collaborator gives the same response whenever it is called
InitRerun ==
    \E name \in OriginalNames, type \in MimeTypes,
       po \in BOOLEAN, gs \in BOOLEAN, at \in BOOLEAN,
       ocr \in RecognizeResponses, sum \in SummaryResponses, tag \in TagResponses,
       wc \in BOOLEAN, wf \in BOOLEAN :
        LET row  == InsertFileValues("u1", Null,
                        [originalname |-> name, mimetype |-> type, path |-> <<0, 1>>])
            file == [id |-> 1] @@ row
        IN  /\ reqs = <<>>
            /\ files = (1 :> row)
            /\ nextFileId = 2
            /\ procs = (1 :> StartProcess(file,
                               [processOcr |-> po, generateSummary |-> gs, autoTag |-> at],
                               1, Persisted(row)))
            /\ folders = <<>>
            /\ nextFolderId = 1
            /\ oracle = [det |-> TRUE, ocr |-> ocr, sum |-> sum, tag |-> tag,
                         wc |-> wc, wf |-> wf]
            /\ commands = <<>>
            /\ disk = {<<0, 1>>}
            /\ ocrService = NewOCRService

RunsAgain == \E f \in DOMAIN procs : Rerun(f)

NextRerun ==
    \/ OcrEnds
    \/ SummaryEnds
    \/ TagsEnd
    \/ WriteCompletedEnds
    \/ WriteFailedEnds
    \/ RunsAgain

SpecRerun == InitRerun /\ [][NextRerun]_vars

\* SpecFolders: folder creates and deletes by two users, and uploads of
\* one file into a folder with all processing options off
CreateFolderArrives ==
    \E u \in Users, name \in FolderNames, parentId \in {Null, 1, 2} :
        StartCreateFolder(u, name, parentId)

CreateFolderContinues ==
    \E k \in DOMAIN reqs, ok \in BOOLEAN :
        CreateFolderGetParent(k, ok) \/ CreateFolderInsert(k, ok)

DeleteFolderArrives ==
    \E u \in Users, id \in {1, 2} : StartDeleteFolder(u, id)

DeleteFolderContinues ==
    \E k \in DOMAIN reqs, ok \in BOOLEAN :
        \/ DeleteFolderGetFiles(k, ok)
        \/ DeleteFolderGetFolders(k, ok)
        \/ DeleteFolderDelete(k, ok)

UploadIntoFolderArrives ==
    /\ Len(reqs) < MaxReqs
    /\ StartUpload("u1", 1, StrFalse, StrFalse, StrFalse,
                   <<[originalname |-> <<"n">>, mimetype |-> "text/plain"]>>)

NextFolders ==
    \/ CreateFolderArrives
    \/ CreateFolderContinues
    \/ DeleteFolderArrives
    \/ DeleteFolderContinues
    \/ UploadIntoFolderArrives
    \/ UploadContinues
    \/ WriteCompletedEnds
    \/ WriteFailedEnds

SpecFolders == Init /\ [][NextFolders]_vars

\* SpecFolderUpdate: one user creates folders and renames or re-parents
\* them
RenamedNames == {<<"A", "2">>}

OwnFolderArrives ==
    \/ StartCreateFolder("u1", <<"A">>, Null)
    \/ StartCreateFolder("u1", <<"B">>, 1)

UpdateFolderArrives ==
    \E id \in {1, 2}, name \in RenamedNames, parentId \in {Undefined, Null, 1, 2} :
        StartUpdateFolder("u1", id, name, parentId)

UpdateFolderContinues ==
    \E k \in DOMAIN reqs, ok \in BOOLEAN :
        UpdateFolderGetParent(k, ok) \/ UpdateFolderUpdate(k, ok)

NextFolderUpdate ==
    \/ OwnFolderArrives
    \/ CreateFolderContinues
    \/ UpdateFolderArrives
    \/ UpdateFolderContinues

SpecFolderUpdate == Init /\ [][NextFolderUpdate]_vars

\* SpecCommands: AI commands submitted and processed while a user creates
\* a folder and uploads a file with all processing options off
CommandArrives ==
    /\ Cardinality({k \in DOMAIN reqs : reqs[k].kind = "command"}) < MaxCommands
    /\ \E u \in Users, command \in CommandTexts : StartCommand(u, command)

CommandContinues ==
    \E k \in DOMAIN reqs, ok \in BOOLEAN : CommandCreate(k, ok)

CommandLmEnds ==
    \E c \in DOMAIN commands, resp \in CommandResponses : CommandLmReturns(c, resp)

CommandWriteCompletedEnds ==
    \E c \in DOMAIN commands, ok \in BOOLEAN : CommandWriteCompletedReturns(c, ok)

CommandWriteFailedEnds ==
    \E c \in DOMAIN commands, ok \in BOOLEAN : CommandWriteFailedReturns(c, ok)

RootFolderArrives == StartCreateFolder("u1", <<"A">>, Null)

PlainUploadArrives ==
    /\ Len(reqs) < MaxReqs
    /\ StartUpload("u1", Null, StrFalse, StrFalse, StrFalse,
                   <<[originalname |-> <<"n">>, mimetype |-> "text/plain"]>>)

NextCommands ==
    \/ CommandArrives
    \/ CommandContinues
    \/ CommandLmEnds
    \/ CommandWriteCompletedEnds
    \/ CommandWriteFailedEnds
    \/ RootFolderArrives
    \/ CreateFolderContinues
    \/ PlainUploadArrives
    \/ UploadContinues
    \/ WriteCompletedEnds
    \/ WriteFailedEnds

SpecCommands == Init /\ [][NextCommands]_vars

\* SpecFileCrud: uploads of one file with all processing options off, and
\* updates, moves and deletes of file records
FileUpdateArrives ==
    \E id \in {1}, body \in FileUpdateBodies : StartUpdateFile("u1", id, body)

FileUpdateContinues ==
    \E k \in DOMAIN reqs, ok \in BOOLEAN : UpdateFileReturns(k, ok)

FileMoveArrives ==
    \E id \in {1}, folderId \in {Null, 1} : StartMoveFile("u1", id, folderId)

FileMoveContinues ==
    \E k \in DOMAIN reqs, ok \in BOOLEAN : MoveFileReturns(k, ok)

FileDeleteArrives ==
    \E id \in {1, 2} : StartDeleteFile("u1", id)

FileDeleteContinues ==
    \E k \in DOMAIN reqs, ok \in BOOLEAN :
        DeleteFileGetFile(k, ok) \/ DeleteFileDelete(k, ok)

NextFileCrud ==
    \/ PlainUploadArrives
    \/ UploadContinues
    \/ WriteCompletedEnds
    \/ WriteFailedEnds
    \/ FileUpdateArrives
    \/ FileUpdateContinues
    \/ FileMoveArrives
    \/ FileMoveContinues
    \/ FileDeleteArrives
    \/ FileDeleteContinues

SpecFileCrud == Init /\ [][NextFileCrud]_vars

\* SpecOnboarding: users onboard, and a user creates a folder by hand
OnboardingArrives == \E u \in Users : StartOnboarding(u)

OnboardingUpsertUserEnds ==
    \E k \in DOMAIN reqs, ok \in BOOLEAN : OnboardingUpsertUser(k, ok)

OnboardingGenerateEnds ==
    \E k \in DOMAIN reqs, resp \in FolderStructureResponses : OnboardingGenerate(k, resp)

OnboardingCreateFolderEnds ==
    \E k \in DOMAIN reqs, ok \in BOOLEAN : OnboardingCreateFolder(k, ok)

NextOnboarding ==
    \/ OnboardingArrives
    \/ OnboardingUpsertUserEnds
    \/ OnboardingGenerateEnds
    \/ OnboardingCreateFolderEnds
    \/ RootFolderArrives
    \/ CreateFolderContinues

SpecOnboarding == Init /\ [][NextOnboarding]_vars

\* SpecPipelines: one upload of up to MaxParts files of either kind, whose
\* pipelines run concurrently; every collaborator gives the same response
\* whenever it is called: the OCR engine a text or a throw, the language
\* model its answers, the store success or failure of either write
InitPipelines ==
    \E ocr \in {[ok |-> FALSE, text |-> <<>>], [ok |-> TRUE, text |-> <<" ", "x", " ">>]},
       sum \in {[ok |-> TRUE, content |-> <<"s">>]},
       tag \in {[ok |-> TRUE, json |-> "tags", tags |-> << <<"b">>, <<"a">>, <<"b">> >>]},
       wc \in BOOLEAN, wf \in BOOLEAN :
        /\ reqs = <<>>
        /\ files = <<>>
        /\ nextFileId = 1
        /\ procs = <<>>
        /\ folders = <<>>
        /\ nextFolderId = 1
        /\ oracle = [det |-> TRUE, ocr |-> ocr, sum |-> sum, tag |-> tag,
                     wc |-> wc, wf |-> wf]
        /\ commands = <<>>
        /\ disk = {}
    /\ ocrService = NewOCRService
        /\ ocrService = NewOCRService

NextPipelines ==
    \/ UploadArrives(MaxUploads, MaxParts, {StrTrue, StrFalse}, {<<"n">>}, MimeTypes)
    \/ UploadContinues
    \/ OcrEnds
    \/ SummaryEnds
    \/ TagsEnd
    \/ WriteCompletedEnds
    \/ WriteFailedEnds

SpecPipelines == InitPipelines /\ [][NextPipelines]_vars

\* SpecReads: u1 creates a folder, uploads a file into it and submits a
\* command; both users read, and u2 sends an update that names itself as
\* the owner of u1's file
ReadArrives ==
    \E u \in Users :
        \/ StartRead(u, "getFolders", Null)
        \/ \E folderId \in {Undefined, 1} : StartRead(u, "getFiles", folderId)
        \/ StartRead(u, "getFile", 1)
        \/ StartRead(u, "getCommands", Null)

ReadContinues ==
    \E k \in DOMAIN reqs, ok \in BOOLEAN :
        \/ GetFoldersReturns(k, ok)
        \/ GetFilesReturns(k, ok)
        \/ GetFileReturns(k, ok)
        \/ GetCommandsReturns(k, ok)

OwnCommandArrives ==
    /\ Cardinality({k \in DOMAIN reqs : reqs[k].kind = "command"}) < MaxCommands
    /\ \E command \in CommandTexts : StartCommand("u1", command)

OwnerUpdateArrives == StartUpdateFile("u2", 1, [userId |-> "u2"])

NextReads ==
    \/ RootFolderArrives
    \/ CreateFolderContinues
    \/ UploadIntoFolderArrives
    \/ UploadContinues
    \/ WriteCompletedEnds
    \/ WriteFailedEnds
    \/ OwnCommandArrives
    \/ CommandContinues
    \/ CommandLmEnds
    \/ CommandWriteCompletedEnds
    \/ CommandWriteFailedEnds
    \/ OwnerUpdateArrives
    \/ FileUpdateContinues
    \/ ReadArrives
    \/ ReadContinues

SpecReads == Init /\ [][NextReads]_vars

\* SpecOcr: concurrent calls of ocrService.extractText, as the pipelines
\* of files uploaded with OCR make them; terminate has no caller
CreateWorkerEnds ==
    \E c \in DOMAIN ocrService.calls, ok \in BOOLEAN : CreateWorkerReturns(c, ok)

LoadLanguageEnds ==
    \E c \in DOMAIN ocrService.calls, ok \in BOOLEAN : LoadLanguageReturns(c, ok)

InitializeEnds ==
    \E c \in DOMAIN ocrService.calls, ok \in BOOLEAN : InitializeReturns(c, ok)

RecognizeEnds ==
    \E c \in DOMAIN ocrService.calls, ok \in BOOLEAN : RecognizeReturns(c, ok)

NextOcr ==
    \/ ExtractTextCalled
    \/ CreateWorkerEnds
    \/ LoadLanguageEnds
    \/ InitializeEnds
    \/ RecognizeEnds

SpecOcr == Init /\ [][NextOcr]_vars

----------------------------------------------------------------------------
(* The pipeline's contract (Spec) *)

Ended(p) == p.pc \in {"returned", "rejected"}

AllOptions(p) ==
    p.options.processOcr /\ p.options.generateSummary /\ p.options.autoTag

\* C1: whenever processFile has returned normally, the persisted
\* processingStatus of its file is completed or failed, never pending or
\* processing.
C1_ReturnedStatusIsFinal ==
    \A f \in DOMAIN procs :
        procs[f].pc = "returned" =>
            files[f].processingStatus \in {"completed", "failed"}

\* a run that returned through the catch block
C1_Witness ==
    \E f \in DOMAIN procs :
        /\ procs[f].pc = "returned"
        /\ procs[f].writes = 2
        /\ files[f].processingStatus = "failed"

\* C3: when extraction, summarization and tagging all fail in a run with
\* all three options enabled (and the write of completed succeeds), the
\* record is completed with ocrText, aiSummary and tags all empty.
C3_AllFailedAllEmpty ==
    \A f \in DOMAIN procs :
        LET p == procs[f]
        IN  ( /\ p.pc = "returned"
              /\ p.writes = 1
              /\ AllOptions(p)
              /\ p.ocrCalls = 1 /\ ~p.ocrOk
              /\ p.sumInput # NotCalled /\ ~p.sumOk
              /\ p.tagInput # NotCalled /\ ~p.tagOk )
            => /\ files[f].processingStatus = "completed"
               /\ files[f].ocrText = <<>>
               /\ files[f].aiSummary = <<>>
               /\ files[f].tags = <<>>

\* C4: for a file whose media type is outside the supported set the text
\* extraction is never invoked, whatever processOcr says, and the
\* summarizer and the tagger, when enabled, are given exactly the file's
\* original name.
C4_UnsupportedNeverExtracted ==
    \A f \in DOMAIN procs :
        LET p == procs[f]
        IN  p.file.mimeType \notin { "image/jpeg", "image/png", "image/gif",
                                     "image/bmp", "image/tiff", "application/pdf" }
            => /\ p.ocrCalls = 0
               /\ p.pc # "ocr"
               /\ p.ocrText = <<>>
               /\ p.sumInput \in {NotCalled, p.file.originalName}
               /\ p.tagInput \in {NotCalled, p.file.originalName}
               /\ (p.options.generateSummary /\ p.file.originalName # <<>>)
                     => p.sumInput = p.file.originalName
               /\ (p.options.autoTag /\ p.file.originalName # <<>> /\ p.pc # "summary")
                     => p.tagInput = p.file.originalName

\* a text/plain upload with all options on, summarized and tagged from its name
C4_Witness ==
    \E f \in DOMAIN procs :
        /\ procs[f].file.mimeType = "text/plain"
        /\ AllOptions(procs[f])
        /\ procs[f].pc = "returned"
        /\ procs[f].sumInput = <<"n">>
        /\ procs[f].tagInput = <<"n">>
        /\ files[f].processingStatus = "completed"

\* C5: with all options on, a supported type and every call succeeding,
\* the single write stores the extraction result, the summarizer's result,
\* the tagger's result (order and duplicates kept) and completed; a step
\* whose option is off is not invoked and its field is stored empty.
C5_SuccessPersistsResults ==
    \A f \in DOMAIN procs :
        LET p == procs[f]
        IN  (p.pc = "returned" /\ p.writes = 1 /\ p.ocrOk /\ p.sumOk /\ p.tagOk)
            => /\ files[f].processingStatus = "completed"
               /\ (AllOptions(p) /\ IsOCRSupported(p.file.mimeType))
                     => /\ p.ocrCalls = 1
                        /\ files[f].ocrText = p.ocrText
                        /\ files[f].ocrText \in {<<>>, <<"x">>}
                        /\ files[f].aiSummary = p.summary
                        /\ files[f].tags = p.tags
                        /\ TextForAI(p) # <<>>
                              => /\ p.lmCalls = 2
                                 /\ p.sumInput = TextForAI(p)
                                 /\ p.tagInput = TextForAI(p)
                                 /\ files[f].aiSummary \in {<<"s">>, UnableMsg}
                                 /\ files[f].tags \in {<<>>, << <<"b">>, <<"a">>, <<"b">> >>}
               /\ ~p.options.processOcr
                     => p.ocrCalls = 0 /\ files[f].ocrText = <<>>
               /\ ~p.options.generateSummary
                     => p.sumInput = NotCalled /\ files[f].aiSummary = <<>>
               /\ ~p.options.autoTag
                     => p.tagInput = NotCalled /\ files[f].tags = <<>>

\* the lease.pdf scenario: text extracted, summarized, tagged with a duplicate
C5_Witness ==
    \E f \in DOMAIN procs :
        /\ procs[f].pc = "returned"
        /\ procs[f].writes = 1
        /\ AllOptions(procs[f])
        /\ procs[f].file.mimeType = "application/pdf"
        /\ files[f].ocrText = <<"x">>
        /\ files[f].aiSummary = <<"s">>
        /\ files[f].tags = << <<"b">>, <<"a">>, <<"b">> >>
        /\ files[f].processingStatus = "completed"

\* C2: if every awaited call returns or throws, every file record that the
\* upload handler created eventually reaches status completed or failed.
C2_EventuallyFinal ==
    \A f \in 1..MaxFiles :
        (f \in DOMAIN files)
            ~> (f \in DOMAIN files
                  /\ files[f].processingStatus \in {"completed", "failed"})

\* C6: a second run of processFile on the same file record with the same
\* options and the same collaborator responses leaves the same persisted
\* ocrText, aiSummary, tags and processingStatus as the first run left.
C6_RerunSamePersisted ==
    \A f \in DOMAIN procs :
        (procs[f].run >= 2 /\ Ended(procs[f]))
            => Persisted(files[f]) = procs[f].first

\* a second run that has stored text, summary and tags again
C6_Witness ==
    \E f \in DOMAIN procs :
        /\ procs[f].run = 2
        /\ procs[f].pc = "returned"
        /\ files[f].processingStatus = "completed"
        /\ files[f].ocrText = <<"x">>
        /\ files[f].tags = << <<"b">>, <<"a">>, <<"b">> >>

----------------------------------------------------------------------------
(* The upload handler's contract (SpecUpload) *)

\* C7: the upload handler does not wait for a pipeline: every file record
\* of its response carries status processing, however far the pipelines
\* of the request have come.
C7_ResponseCarriesProcessing ==
    \A k \in DOMAIN reqs :
        (reqs[k].kind = "upload" /\ reqs[k].status = 200)
        => /\ Len(reqs[k].uploadedFiles) = Len(reqs[k].parts)
           /\ \A i \in DOMAIN reqs[k].uploadedFiles :
                 reqs[k].uploadedFiles[i].processingStatus = "processing"

\* a response for two files, sent when the first file's pipeline has
\* completed and the second file's pipeline is still running
C7_Witness ==
    \E k \in DOMAIN reqs :
        /\ reqs[k].kind = "upload"
        /\ reqs[k].status = 200
        /\ Len(reqs[k].uploadedFiles) = 2
        /\ files[reqs[k].uploadedFiles[1].id].processingStatus = "completed"
        /\ ~Ended(procs[reqs[k].uploadedFiles[2].id])
        /\ reqs[k].uploadedFiles[1].processingStatus = "processing"

\* C8: an option field that the upload request omits defaults to true: the
\* pipeline of each file runs with that option enabled.
C8_OmittedOptionDefaultsTrue ==
    \A k \in DOMAIN reqs :
        reqs[k].kind = "upload" =>
            \A i \in DOMAIN reqs[k].uploadedFiles :
                LET o == procs[reqs[k].uploadedFiles[i].id].options
                    b == reqs[k].body
                IN  /\ b.processOcr = JsUndefined => o.processOcr
                    /\ b.generateSummary = JsUndefined => o.generateSummary
                    /\ b.autoTag = JsUndefined => o.autoTag


----------------------------------------------------------------------------
(* The folder handlers' contract (SpecFolders) *)

\* C9: a delete request for a folder that a file (folderId) or a subfolder
\* (parentId) references does not remove the folder: no request removes a
\* folder that was referenced both when the request arrived and when its
\* delete statement ran.
C9_ReferencedFolderNotRemoved ==
    \A k \in DOMAIN reqs :
        reqs[k].kind = "deleteFolder" =>
            ~(reqs[k].removed /\ reqs[k].refAtStart /\ reqs[k].refAtDelete)

\* C10: a folder created with a parent has the parent's stored path, "/"
\* and its name as its path, one created without a parent has its name;
\* a stored non-null parentId goes with a path built on that parent's path.
C10_CreatedPathFollowsParent ==
    \A k \in DOMAIN reqs :
        (reqs[k].kind = "createFolder" /\ reqs[k].status = 200) =>
            LET r == reqs[k]
                folder == r.folder[1]
            IN  IF folder.parentId # Null
                THEN /\ Len(r.parentFolder) = 1
                     /\ folder.path = JoinPath(r.parentFolder[1].path, folder.name)
                ELSE folder.path = folder.name


\* C11: an update of a folder (rename or re-parent) changes only that
\* folder's row: every other folder, the descendants of the updated folder
\* included, keeps its stored name, parentId and path.
C11_UpdateChangesOnlyItsRow ==
    [][\A k \in DOMAIN reqs :
          (reqs[k].kind = "updateFolder" /\ reqs[k].pc = "update"
             /\ reqs'[k].pc = "done") =>
                /\ DOMAIN folders' = DOMAIN folders
                /\ \A g \in DOMAIN folders \ {reqs[k].folderId} :
                      folders'[g] = folders[g]]_vars

\* A renamed to A2 by a finished update while its child B keeps path A/B
C11_Witness ==
    /\ \E k \in DOMAIN reqs :
          /\ reqs[k].kind = "updateFolder"
          /\ reqs[k].folderId = 1
          /\ reqs[k].status = 200
    /\ DOMAIN folders = {1, 2}
    /\ folders[1].name = <<"A", "2">>
    /\ folders[1].path = <<"A", "2">>
    /\ folders[2].parentId = 1
    /\ folders[2].path = <<"A", "/", "B">>


----------------------------------------------------------------------------
(* The AI command contract (SpecCommands) *)

\* C12: a command record is created with status processing and, once its
\* processCommand has ended, has been updated exactly once, to completed
\* with the parsed response or to failed with the error payload, after at
\* most one call of the language model.
C12_CommandUpdatedExactlyOnce ==
    \A c \in DOMAIN commands :
        LET r == commands[c]
        IN  /\ r.lmCalls <= 1
            /\ r.updates = 0 => r.status = "processing"
            /\ r.pc \in {"returned", "rejected"} =>
                  /\ r.updates = 1
                  /\ \/ r.status = "completed" /\ r.result = r.parsed
                     \/ r.status = "failed" /\ r.result = ErrorPayload

----------------------------------------------------------------------------
(* The file handlers' contract (SpecFileCrud) *)

\* C14: in every reachable state the processingStatus of every file record
\* is one of pending, processing, completed, failed.
C14_StatusInDomain ==
    \A f \in DOMAIN files :
        files[f].processingStatus \in {"pending", "processing", "completed", "failed"}

\* C16: after a delete request for a file has finished, with a success or
\* an error response, the record it found exists if and only if the
\* record's stored bytes exist.
C16_RecordIffBytes ==
    \A k \in DOMAIN reqs :
        (reqs[k].kind = "deleteFile" /\ reqs[k].pc = "done" /\ reqs[k].file # <<>>) =>
            ((reqs[k].fileId \in DOMAIN files)
                <=> (reqs[k].file[1].filePath \in disk))


----------------------------------------------------------------------------
(* The onboarding contract (SpecOnboarding) *)

\* C15: an onboarding request that succeeds has created one folder row per
\* entry of the language model's list, in the order received, and every
\* folder it created with a non-null parentId references the stored id of
\* a folder the same request created earlier.
C15_OnboardingParentsCreatedEarlier ==
    \A k \in DOMAIN reqs :
        reqs[k].kind = "onboarding" =>
            LET r == reqs[k]
            IN  /\ r.status = 200 => Len(r.created) = Len(r.folderStructure)
                /\ \A i \in DOMAIN r.created :
                      /\ folders[r.created[i]].name = r.folderStructure[i].name
                      /\ folders[r.created[i]].parentId # Null =>
                            \E j \in 1..(i - 1) :
                                r.created[j] = folders[r.created[i]].parentId


----------------------------------------------------------------------------
(* The pipeline's steps (Spec) *)

\* the run is past its extraction step
PastOcr(p) == p.pc \notin {"start", "ocr"}

\* the extracted text if it is non-empty, the original name otherwise
ExpectedText(p) ==
    IF p.ocrCalls = 1 /\ p.ocrOk /\ p.ocrText # <<>>
    THEN p.ocrText
    ELSE p.file.originalName

\* C17: whenever the summarizer or the tagger is invoked, it receives the
\* extracted text if that is non-empty and the original name otherwise;
\* both steps of a run receive the same text, and neither is invoked when
\* that text is empty.
C17_TextForDownstreamSteps ==
    \A f \in DOMAIN procs :
        LET p == procs[f]
        IN  /\ p.sumInput # NotCalled =>
                  PastOcr(p) /\ p.sumInput = ExpectedText(p) /\ p.sumInput # <<>>
            /\ p.tagInput # NotCalled =>
                  PastOcr(p) /\ p.tagInput = ExpectedText(p) /\ p.tagInput # <<>>
            /\ (p.sumInput # NotCalled /\ p.tagInput # NotCalled) =>
                  p.sumInput = p.tagInput
            /\ (PastOcr(p) /\ ExpectedText(p) = <<>>) =>
                  p.sumInput = NotCalled /\ p.tagInput = NotCalled /\ p.lmCalls = 0

\* an extraction that returned only white space: both steps get the name
C17_Witness ==
    \E f \in DOMAIN procs :
        /\ procs[f].pc = "returned"
        /\ procs[f].ocrCalls = 1
        /\ procs[f].ocrOk
        /\ procs[f].ocrText = <<>>
        /\ procs[f].sumInput = <<"n">>
        /\ procs[f].tagInput = <<"n">>

StepRank(step) ==
    CASE step = "ocr"         -> 1
      [] step = "summary"     -> 2
      [] step = "tags"        -> 3
      [] step = "write"       -> 4
      [] step = "writeFailed" -> 5

\* C18: within one run the steps are strictly ordered and never overlap:
\* in the run's log every call is followed by its own end before any other
\* call is made, no call is made twice, and the calls are made in the
\* order extraction, summarization, tagging, persistence write.
C18_StepsStrictlyOrdered ==
    \A f \in DOMAIN procs :
        LET log == procs[f].log
        IN  /\ \A i \in 1..(Len(log) - 1) :
                  ~log[i].ended => log[i + 1] = CallEnded(log[i].step)
            /\ \A i \in DOMAIN log :
                  log[i].ended => (i > 1 /\ log[i - 1] = Started(log[i].step))
            /\ \A i, j \in DOMAIN log :
                  i < j => \/ StepRank(log[i].step) < StepRank(log[j].step)
                           \/ (log[i].step = log[j].step /\ j = i + 1)

\* a run that made all four calls and has returned
C18_Witness ==
    \E f \in DOMAIN procs :
        /\ procs[f].pc = "returned"
        /\ procs[f].log = << Started("ocr"), CallEnded("ocr"),
                             Started("summary"), CallEnded("summary"),
                             Started("tags"), CallEnded("tags"),
                             Started("write"), CallEnded("write") >>

\* the calls of the language model a run makes: one for the summary and
\* one for the tags, each if its option is on and the text is not empty
ExpectedLmCalls(p) ==
    (IF p.options.generateSummary /\ ExpectedText(p) # <<>> THEN 1 ELSE 0)
    + (IF p.options.autoTag /\ ExpectedText(p) # <<>> THEN 1 ELSE 0)

\* C19 (as stated): every run that has ended made one or two calls of the
\* language model, zero or one call of the extraction, and one persistence
\* write, or two when the first one threw.
C19_OneOrTwoLmCalls ==
    \A f \in DOMAIN procs :
        Ended(procs[f]) =>
            /\ procs[f].lmCalls \in {1, 2}
            /\ procs[f].ocrCalls \in {0, 1}
            /\ procs[f].writes \in {1, 2}

\* C19 (amended): every run makes zero, one or two calls of the language
\* model (one per step whose option is on, none when the text is empty),
\* zero or one call of the extraction, exactly one persistence write when
\* the write of completed succeeds, and a second one only when it threw.
C19_AtMostTwoLmCalls ==
    \A f \in DOMAIN procs :
        LET p == procs[f]
        IN  /\ p.lmCalls \in {0, 1, 2}
            /\ p.ocrCalls \in {0, 1}
            /\ p.ocrCalls = 1 <=>
                  (p.options.processOcr /\ IsOCRSupported(p.file.mimeType))
            /\ Ended(p) =>
                  /\ p.lmCalls = ExpectedLmCalls(p)
                  /\ p.writes \in {1, 2}
                  /\ p.writes = 1 <=> files[f].processingStatus = "completed"
                  /\ p.writes = 2 <=>
                        \E i \in DOMAIN p.log : p.log[i] = Started("writeFailed")

\* a run with all options off: no call of either collaborator, one write
C19_Witness ==
    \E f \in DOMAIN procs :
        /\ procs[f].pc = "returned"
        /\ procs[f].lmCalls = 0
        /\ procs[f].ocrCalls = 0
        /\ procs[f].writes = 1
        /\ files[f].processingStatus = "completed"

\* C20: the pipeline writes failed only after its write of completed has
\* thrown; failures of extraction, summarization and tagging, in any
\* combination, end in completed when that write succeeds; and no step
\* turns a record written as completed into failed.
C20_FailedOnlyWhenWriteThrows ==
    /\ [](\A f \in DOMAIN procs :
            LET p == procs[f]
            IN  /\ files[f].processingStatus = "failed" =>
                      \E i \in 1..(Len(p.log) - 1) :
                          /\ p.log[i] = CallEnded("write")
                          /\ p.log[i + 1] = Started("writeFailed")
                /\ (p.pc = "returned" /\ p.log[Len(p.log)] = CallEnded("write")) =>
                      files[f].processingStatus = "completed")
    /\ [][\A f \in DOMAIN files :
             files[f].processingStatus = "completed" =>
                 files'[f].processingStatus = "completed"]_vars

\* extraction, summarization and tagging all failed, and the record is
\* completed
C20_Witness ==
    \E f \in DOMAIN procs :
        /\ procs[f].pc = "returned"
        /\ ~procs[f].ocrOk
        /\ ~procs[f].sumOk
        /\ ~procs[f].tagOk
        /\ procs[f].ocrCalls = 1
        /\ procs[f].lmCalls = 2
        /\ files[f].processingStatus = "completed"


----------------------------------------------------------------------------
(* Folder updates (SpecFolderUpdate) *)

\* C21: after a folder update the stored path is the new parent's stored
\* path, "/" and the resulting name, or the resulting name alone for a
\* folder that ends up at root; a request that carries only a new name
\* keeps the folder's parent.
C21_UpdatedPathFollowsParent ==
    \A k \in DOMAIN reqs :
        (reqs[k].kind = "updateFolder" /\ reqs[k].updatedFolder # <<>>) =>
            LET r      == reqs[k]
                folder == r.updatedFolder[1]
            IN  /\ r.parentId = Undefined => folder.parentId = r.before[1].parentId
                /\ IF folder.parentId # Null
                   THEN /\ Len(r.parentFolder) = 1
                        /\ folder.path = JoinPath(r.parentFolder[1].path, folder.name)
                   ELSE folder.path = folder.name

\* C22: last write wins for updates of one folder: the update statement of
\* a request sets the folder's name, parentId and path to the three values
\* of that request together, whatever other requests are in flight.
C22_LastWriteWins ==
    [][\A k \in DOMAIN reqs :
          (reqs[k].kind = "updateFolder" /\ reqs[k].pc = "update"
             /\ reqs'[k].status = 200 /\ reqs[k].folderId \in DOMAIN folders) =>
                LET r == reqs[k]
                IN  /\ folders'[r.folderId].name = r.name
                    /\ folders'[r.folderId].parentId =
                          (IF Truthy(r.parentId) THEN r.parentId ELSE Null)
                    /\ folders'[r.folderId].path = r.path]_vars

\* two updates of folder 1 have both written, and the folder holds the row
\* of the request that arrived first and wrote last
C22_Witness ==
    \E k1, k2 \in DOMAIN reqs :
        /\ k1 < k2
        /\ reqs[k1].kind = "updateFolder" /\ reqs[k2].kind = "updateFolder"
        /\ reqs[k1].folderId = 1 /\ reqs[k2].folderId = 1
        /\ reqs[k1].updatedFolder # <<>> /\ reqs[k2].updatedFolder # <<>>
        /\ reqs[k1].updatedFolder # reqs[k2].updatedFolder
        /\ reqs[k2].before # reqs[k1].updatedFolder
        /\ 1 \in DOMAIN folders
        /\ folders[1] = reqs[k1].updatedFolder[1]

\* the folder reached from g by following parentId n times, or Null
RECURSIVE AncestorAt(_, _)
AncestorAt(g, n) ==
    IF n = 0 THEN g
    ELSE LET a == AncestorAt(g, n - 1)
         IN  IF a \in DOMAIN folders THEN folders[a].parentId ELSE Null

\* C25: the folder hierarchy is a forest: no folder is its own parent or
\* its own ancestor.
C25_HierarchyIsForest ==
    \A g \in DOMAIN folders :
        \A n \in 1..Cardinality(DOMAIN folders) : AncestorAt(g, n) # g


----------------------------------------------------------------------------
(* Referential integrity of folders (SpecFolders) *)

\* the ids of the folders that delete requests have removed
DeletedFolders ==
    {reqs[k].folderId : k \in {j \in DOMAIN reqs :
                                 reqs[j].kind = "deleteFolder" /\ reqs[j].removed}}

\* C24: in no reachable state does the parentId of an existing folder or
\* the folderId of an existing file name a folder that has been deleted.
C24_NoReferenceToDeletedFolder ==
    /\ \A g \in DOMAIN folders : folders[g].parentId \notin DeletedFolders
    /\ \A f \in DOMAIN files : files[f].folderId \notin DeletedFolders


----------------------------------------------------------------------------
(* Failed onboarding (SpecOnboarding) *)

\* C30: an onboarding request that is answered with an error has created
\* no folder row.
C30_FailedOnboardingCreatesNothing ==
    \A k \in DOMAIN reqs :
        (reqs[k].kind = "onboarding" /\ reqs[k].status = 500) =>
            reqs[k].created = <<>>


----------------------------------------------------------------------------
(* File requests against an in-flight pipeline (SpecFileCrud) *)

\* C27: once a delete request for a file has completed, no record with
\* that id exists in any later state, and a step of a pipeline neither
\* creates a record nor changes the record of another file.
C27_DeletedFileStaysDeleted ==
    /\ [](\A k \in DOMAIN reqs :
            (reqs[k].kind = "deleteFile" /\ reqs[k].status = 200
               /\ reqs[k].file # <<>>) =>
                  reqs[k].fileId \notin DOMAIN files)
    /\ [][\A f \in DOMAIN procs :
             procs'[f] # procs[f] =>
                /\ DOMAIN files' = DOMAIN files
                /\ \A g \in DOMAIN files \ {f} : files'[g] = files[g]]_vars

\* a file deleted while its pipeline awaited the write of completed, whose
\* pipeline has returned since
C27_Witness ==
    \E k \in DOMAIN reqs :
        /\ reqs[k].kind = "deleteFile"
        /\ reqs[k].status = 200
        /\ reqs[k].pipelineAtDelete = "write"
        /\ procs[reqs[k].fileId].pc = "returned"
        /\ reqs[k].fileId \notin DOMAIN files
        /\ DOMAIN files # {}

\* the columns of a file that a user edits
UserColumns == {"originalName", "folderId", "tags", "aiSummary"}

\* C28: a value written to a file by PUT /api/files/:id or by
\* PUT /api/files/:id/move while the file's pipeline was in flight is
\* still the stored value after the pipeline has finished (for a file with
\* no other update or move request).
C28_PipelineKeepsUserEdit ==
    \A k \in DOMAIN reqs :
        LET r == reqs[k]
        IN  (/\ r.kind \in {"updateFile", "moveFile"}
             /\ r.wrote
             /\ r.pipelineAtWrite \in {"ocr", "summary", "tags", "write", "writeFailed"}
             /\ procs[r.fileId].pc \in {"returned", "rejected"}
             /\ r.fileId \in DOMAIN files
             /\ \A j \in DOMAIN reqs \ {k} :
                   reqs[j].kind \in {"updateFile", "moveFile"} => reqs[j].fileId # r.fileId)
            => IF r.kind = "moveFile"
               THEN files[r.fileId].folderId = r.folderId
               ELSE \A col \in DOMAIN r.body \cap UserColumns :
                       files[r.fileId][col] = r.body[col]


----------------------------------------------------------------------------
(* Ownership (SpecReads) *)

\* C29: every record that a read request returns has the requester as its
\* userId, and the userId of a file record is the one it was created with.
C29_ReadsReturnOwnRecords ==
    /\ \A k \in DOMAIN reqs :
          (reqs[k].kind \in {"getFolders", "getFiles", "getFile", "getCommands"}
             /\ reqs[k].status = 200) =>
                \A row \in reqs[k].returned : row.userId = reqs[k].userId
    /\ \A f \in DOMAIN files : files[f].userId = procs[f].file.userId


----------------------------------------------------------------------------
(* Concurrent pipelines (SpecPipelines) *)

\* what processFile leaves in the row of `file` when it runs alone with
\* options `o` and the responses `c` of its collaborators, on a row that
\* holds `first`
AloneResult(file, o, c, first) ==
    LET r       == ExtractText(c.ocr)
        ocrText == IF o.processOcr /\ IsOCRSupported(file.mimeType) /\ r.ok
                   THEN r.text ELSE <<>>
        text    == IF ocrText # <<>> THEN ocrText ELSE file.originalName
        summary == IF o.generateSummary /\ text # <<>>
                   THEN SummarizeDocument(c.sum) ELSE <<>>
        tags    == IF o.autoTag /\ text # <<>> THEN GenerateTags(c.tag) ELSE <<>>
    IN  IF c.wc
        THEN [ ocrText |-> ocrText, aiSummary |-> summary, tags |-> tags,
               processingStatus |-> "completed" ]
        ELSE IF c.wf
        THEN [first EXCEPT !.processingStatus = "failed"]
        ELSE first

----------------------------------------------------------------------------
(* The OCR worker (SpecOcr) *)

\* C26: createWorker is called at most once, and every call of recognize
\* is made on a worker on which loadLanguage and initialize have both
\* completed.
C26_WorkerIsSingleton ==
    /\ ocrService.created <= 1
    /\ \A c \in DOMAIN ocrService.calls :
          ocrService.calls[c].recognizeOn # Null => ocrService.calls[c].onReady

=============================================================================
